---- MODULE Spec2Model ----
(***************************************************************************)
(* A model of the aspen behavior-tree node protocol.                       *)
(*                                                                         *)
(* Two nodes are driven by one tick thread:                                *)
(*   "inline" : a Node wrapping an InlineAction (its task may return any   *)
(*              of the four statuses, its reset is a no-op);               *)
(*   "action" : a Node wrapping an Action, whose task runs in worker       *)
(*              threads that hand their result over a rendezvous channel   *)
(*              (mpsc::sync_channel(0)).                                   *)
(* The tick thread is modelled step by step (entering Node::tick or        *)
(* Node::reset, the internals' reset, the internals' tick), the workers    *)
(* interleave freely with it.                                              *)
(*                                                                         *)
(* A second specification, TreeSpec, drives one composite, decorator or    *)
(* constant node (Sequence, ActiveSequence, Selector, StatefulSelector,    *)
(* Parallel, Repeat, UntilFail, UntilSuccess, Invert, Invert over Invert,  *)
(* AlwaysSucceed, AlwaysFail, AlwaysRunning, Decorator) over children      *)
(* whose internals return any status; there a tick of the root is one step *)
(* of the single tick thread.                                              *)
(*                                                                         *)
(* A third specification, ParallelSpec, drives a Parallel whose children   *)
(* are Action nodes: the loop of Parallel::tick is one step (no call in it *)
(* waits), Parallel::reset goes child by child (Action::reset waits for    *)
(* the child's worker), and the workers interleave with both.              *)
(*                                                                         *)
(* A fourth specification, BtSpec, drives the same roots through a         *)
(* BehaviorTree (tick, reset, run).                                        *)
(*                                                                         *)
(* InternalsSpec calls Action::tick and Action::reset directly, without    *)
(* the Node around them.  SequenceSpec drives a Sequence whose children    *)
(* are Action nodes.  LiveSpec adds the fairness of the scheduler (a task  *)
(* that returns, a tick thread that keeps ticking) to the Action node and  *)
(* to the Sequence of Actions.                                             *)
(***************************************************************************)
EXTENDS Integers, Sequences, FiniteSets, TLC

\* Number of workers spawned in one behaviour, and the most Action children
\* of a Parallel.
MaxWorkers == 2

Status == {"Initialized", "Running", "Succeeded", "Failed"}

is_done(s) == s = "Succeeded" \/ s = "Failed"

Nodes == {"inline", "action"}

Workers == 1..MaxWorkers

\* The positions of a worker thread:
\*   unborn   not spawned yet
\*   running  executing the task
\*   sending  the task returned, the worker is blocked in tx.send(..)
\*   sent     the receiver took the value; tx is not dropped yet
\*   exited   the closure ended normally, tx dropped
\*   died     the task panicked: tx dropped without a send
\*   failed   tx.send(..) returned Err (receiver gone) and unwrap() panicked
WorkerStates == {"unborn", "running", "sending", "sent", "exited", "died", "failed"}

VARIABLES
    status,    \* Node.status of each node
    alive,     \* whether the node has not been dropped
    rx,        \* Action.rx: 0 is None, w is Some(receiver of worker w's channel)
    spawned,   \* number of workers spawned so far
    wstate,    \* position of each worker thread
    wval,      \* the status the worker's task returned
    pc,        \* position of the tick thread
    cur,       \* the node the tick thread is operating on
    after,     \* what follows the internals' reset: "tick" or "return"
    ticked,    \* the node was ticked since its creation or its last reset
    lastRet,   \* the value the node's most recent tick returned
    last,      \* record of the current / most recent operation
    prev       \* summary of the operation before it

\* The state of the tree driven by TreeSpec.
VARIABLES
    kind,                \* the type of the root's internals
    root,                \* Node.status of the root
    children,            \* Node.status of each child, in declaration order
    next_child,          \* Sequence.next_child / StatefulSelector.next_child
    required_successes,  \* Parallel.required_successes
    attempt_limit,       \* Repeat.attempt_limit, -1 for None
    attempts,            \* Repeat.attempts
    overflow_checks,     \* the build panics on integer overflow (else it wraps)
    top,                 \* record of the most recent operation on the root
    hist,                \* what happened since the root's last reset
    bt,                  \* record of the BehaviorTree call running or last made
    rxs,                 \* Action.rx of each child that is an Action, 0 for None
    idx                  \* the child the root's reset has reached

tvars == <<kind, root, children, next_child, required_successes, attempt_limit,
           attempts, overflow_checks, top, hist, bt, rxs, idx>>

nvars == <<status, alive, rx, spawned, wstate, wval, pc, cur, after,
           ticked, lastRet, last, prev>>

vars == <<nvars, tvars>>

NoOp == [node |-> "inline", op |-> "none", pre |-> "Initialized", calls |-> <<>>,
         ret |-> "none", outcome |-> "returned", seen |-> "n/a",
         rxPre |-> 0, spawnedPre |-> 0, inflight |-> FALSE]

\* The status a tick of the Action received from its worker, "none" if the
\* operation l received nothing.
Received(l) ==
    IF l.node = "action" /\ l.op = "tick" /\ l.seen = "sending"
    THEN wval[l.rxPre] ELSE "none"

Summary(l) == [node |-> l.node, op |-> l.op, ncalls |-> Len(l.calls),
               outcome |-> l.outcome, recv |-> Received(l)]

NodeInit ==
    /\ status = [n \in Nodes |-> "Initialized"]
    /\ alive = [n \in Nodes |-> TRUE]
    /\ rx = 0
    /\ spawned = 0
    /\ wstate = [w \in Workers |-> "unborn"]
    /\ wval = [w \in Workers |-> "Initialized"]
    /\ pc = "idle"
    /\ cur = "inline"
    /\ after = "return"
    /\ ticked = [n \in Nodes |-> FALSE]
    /\ lastRet = [n \in Nodes |-> "none"]
    /\ last = NoOp
    /\ prev = Summary(NoOp)

NoTop == [op |-> "none", pre |-> "Initialized", next0 |-> 0, rtrace |-> <<>>,
          trace |-> <<>>, ret |-> "none", outcome |-> "returned"]

NoHist == [ticks |-> 0, completions |-> 0, childTicks |-> 0, resets |-> 0,
           sawInitialized |-> FALSE]

\* No call of the BehaviorTree made yet.
NoRun == [hook |-> FALSE, finite |-> FALSE, ticks |-> 0, hooks |-> 0,
          over |-> FALSE, slept |-> FALSE, warned |-> FALSE]

NoBt == [op |-> "none", freq |-> "none", running |-> FALSE, pre0 |-> "Initialized",
         pre |-> "Initialized", ticked |-> FALSE, status |-> "none", ret |-> "none",
         run |-> NoRun]

\* No tree: the state of the tree variables under Spec.
TreeIdle ==
    /\ kind = "none"
    /\ root = "Initialized"
    /\ children = <<>>
    /\ next_child = 0
    /\ required_successes = 0
    /\ attempt_limit = -1
    /\ attempts = 0
    /\ overflow_checks = FALSE
    /\ top = NoTop
    /\ hist = NoHist
    /\ bt = NoBt
    /\ rxs = <<>>
    /\ idx = 0

Init == NodeInit /\ TreeIdle

\* The state of the worker behind the Action's receiver, "none" without one.
RxWorker == IF rx = 0 THEN "none" ELSE wstate[rx]

Begin(n, o) ==
    [node |-> n, op |-> o, pre |-> status[n], calls |-> <<>>, ret |-> "none",
     outcome |-> "running", seen |-> "n/a", rxPre |-> rx, spawnedPre |-> spawned,
     inflight |-> (n = "action" /\ RxWorker = "running")]

(***************************************************************************)
(* The Node wrapper (node.rs)                                              *)
(***************************************************************************)

\* The tick thread leaves the internals' reset: back into Node::tick, or
\* back to the caller of Node::reset.
ResetDone(l) ==
    IF after = "tick"
    THEN /\ pc' = "tick_internals"
         /\ last' = l
    ELSE /\ pc' = "idle"
         /\ last' = [l EXCEPT !.outcome = "returned"]

NodeReset_always(n, l, then) ==
    /\ status' = [status EXCEPT ![n] = "Initialized"]
    /\ ticked' = [ticked EXCEPT ![n] = FALSE]
    /\ last' = [l EXCEPT !.calls = Append(@, "reset")]
    /\ pc' = "reset_internals"
    /\ after' = then

\* Node::reset: only a node that is not Initialized resets its internals.
NodeReset(n, l, then) ==
    IF status[n] # "Initialized"
    THEN /\ status' = [status EXCEPT ![n] = "Initialized"]
         /\ ticked' = [ticked EXCEPT ![n] = FALSE]
         /\ last' = [l EXCEPT !.calls = Append(@, "reset")]
         /\ pc' = "reset_internals"
         /\ after' = then
    ELSE /\ UNCHANGED <<status, ticked>>
         /\ after' = then
         /\ IF then = "tick"
            THEN pc' = "tick_internals" /\ last' = l
            ELSE pc' = "idle" /\ last' = [l EXCEPT !.outcome = "returned"]

\* A tick of the Action node that would start a thread needs a free worker.
CanTick(n) ==
    (n = "action" /\ (rx = 0 \/ is_done(status[n]))) => spawned < MaxWorkers

NodeTick_noreset(n) ==
    /\ UNCHANGED tvars
    /\ pc = "idle"
    /\ alive[n]
    /\ CanTick(n)
    /\ cur' = n
    /\ prev' = Summary(last)
    /\ pc' = "tick_internals"
    /\ last' = Begin(n, "tick")
    /\ after' = "tick"
    /\ UNCHANGED <<status, ticked, alive, rx, spawned, wstate, wval, lastRet>>

\* Node::tick, up to the call of the internals' tick: a node that is done
\* is reset first.
NodeTick(n) ==
    /\ UNCHANGED tvars
    /\ pc = "idle"
    /\ alive[n]
    /\ CanTick(n)
    /\ cur' = n
    /\ prev' = Summary(last)
    /\ IF is_done(status[n])
       THEN NodeReset(n, Begin(n, "tick"), "tick")
       ELSE /\ pc' = "tick_internals"
            /\ last' = Begin(n, "tick")
            /\ after' = "tick"
            /\ UNCHANGED <<status, ticked>>
    /\ UNCHANGED <<alive, rx, spawned, wstate, wval, lastRet>>

\* A call of Node::reset by the node's owner.
CallReset(n) ==
    /\ UNCHANGED tvars
    /\ pc = "idle"
    /\ alive[n]
    /\ cur' = n
    /\ prev' = Summary(last)
    /\ NodeReset(n, Begin(n, "reset"), "return")
    /\ UNCHANGED <<alive, rx, spawned, wstate, wval, lastRet>>

NodeStore_stale(n, s, l) ==
    /\ UNCHANGED status
    /\ ticked' = [ticked EXCEPT ![n] = TRUE]
    /\ lastRet' = [lastRet EXCEPT ![n] = s]
    /\ last' = [l EXCEPT !.ret = s, !.outcome = "returned"]
    /\ pc' = "idle"

\* Node::tick, after the internals' tick returned s: store it and return it.
NodeStore(n, s, l) ==
    /\ status' = [status EXCEPT ![n] = s]
    /\ ticked' = [ticked EXCEPT ![n] = TRUE]
    /\ lastRet' = [lastRet EXCEPT ![n] = s]
    /\ last' = [l EXCEPT !.ret = s, !.outcome = "returned"]
    /\ pc' = "idle"

\* The owner drops the node. An Action has no Drop of its own: its fields
\* are dropped, the receiver among them, and nothing waits for the worker.
NodeDrop(n) ==
    /\ UNCHANGED tvars
    /\ pc = "idle"
    /\ alive[n]
    /\ alive' = [alive EXCEPT ![n] = FALSE]
    /\ rx' = IF n = "action" THEN 0 ELSE rx
    /\ cur' = n
    /\ prev' = Summary(last)
    /\ last' = [Begin(n, "drop") EXCEPT !.outcome = "returned"]
    /\ UNCHANGED <<status, spawned, wstate, wval, pc, after, ticked, lastRet>>

(***************************************************************************)
(* InlineAction (action.rs)                                                *)
(***************************************************************************)

\* InlineAction::tick: the task's return value, whatever it is.
InlineTick ==
    /\ UNCHANGED tvars
    /\ pc = "tick_internals"
    /\ cur = "inline"
    /\ \E v \in Status :
          NodeStore("inline", v, [last EXCEPT !.calls = Append(@, "tick")])
    /\ UNCHANGED <<alive, rx, spawned, wstate, wval, cur, after, prev>>

\* InlineAction::reset: a no-op.
InlineReset ==
    /\ UNCHANGED tvars
    /\ pc = "reset_internals"
    /\ cur = "inline"
    /\ ResetDone(last)
    /\ UNCHANGED <<status, alive, rx, spawned, wstate, wval, cur, after,
                   ticked, lastRet, prev>>

(***************************************************************************)
(* Action (action.rs)                                                      *)
(***************************************************************************)

\* What worker w's rendezvous channel offers its receiver: the value of a
\* sender blocked in send, nothing while the sender is still connected, or
\* the disconnection once tx has been dropped.
Channel(w) ==
    CASE wstate[w] = "sending" -> [kind |-> "Ok", val |-> wval[w]]
      [] wstate[w] \in {"running", "sent"} -> [kind |-> "Empty", val |-> "none"]
      [] OTHER -> [kind |-> "Disconnected", val |-> "none"]

\* The receiver takes the value and the sender's send returns.
Taken(w) ==
    IF Channel(w).kind = "Ok" THEN [wstate EXCEPT ![w] = "sent"] ELSE wstate

\* Action::start_thread: a new channel, a new worker running the task, and
\* the receiver stored in rx.
start_thread ==
    /\ spawned < MaxWorkers
    /\ spawned' = spawned + 1
    /\ wstate' = [wstate EXCEPT ![spawned + 1] = "running"]
    /\ rx' = spawned + 1

Poll_dropped(r) ==
    CASE r.kind = "Ok" /\ r.val = "Running" ->
            [status |-> "Running", reset |-> TRUE, panic |-> FALSE]
      [] r.kind = "Ok" ->
            [status |-> "Running", reset |-> FALSE, panic |-> FALSE]
      [] r.kind = "Empty" ->
            [status |-> "Running", reset |-> FALSE, panic |-> FALSE]
      [] OTHER ->
            [status |-> "none", reset |-> FALSE, panic |-> TRUE]

Poll_silent(r) ==
    CASE r.kind = "Ok" /\ r.val = "Running" ->
            [status |-> "Running", reset |-> TRUE, panic |-> FALSE]
      [] r.kind = "Ok" ->
            [status |-> r.val, reset |-> FALSE, panic |-> FALSE]
      [] r.kind = "Empty" ->
            [status |-> "Running", reset |-> FALSE, panic |-> FALSE]
      [] OTHER ->
            [status |-> "Failed", reset |-> FALSE, panic |-> FALSE]

\* The match of Action::tick on rx.try_recv(): the (status, reset) pair, or
\* the panic "Thread died before finishing".
Poll(r) ==
    CASE r.kind = "Ok" /\ r.val = "Running" ->
            [status |-> "Running", reset |-> TRUE, panic |-> FALSE]
      [] r.kind = "Ok" ->
            [status |-> r.val, reset |-> FALSE, panic |-> FALSE]
      [] r.kind = "Empty" ->
            [status |-> "Running", reset |-> FALSE, panic |-> FALSE]
      [] OTHER ->
            [status |-> "none", reset |-> FALSE, panic |-> TRUE]

\* The tick thread panics inside the operation l.
Panic(l) ==
    /\ pc' = "panicked"
    /\ last' = [l EXCEPT !.outcome = "panicked"]

\* Action::tick with a receiver: poll it without waiting.
ActionPoll(l) ==
    LET p == Poll(Channel(rx)) IN
    /\ wstate' = Taken(rx)
    /\ UNCHANGED spawned
    /\ IF p.panic
       THEN /\ Panic(l)
            /\ UNCHANGED <<status, ticked, lastRet, rx>>
       ELSE /\ rx' = IF p.reset THEN 0 ELSE rx
            /\ NodeStore("action", p.status, l)

ActionTick_respawn ==
    /\ UNCHANGED tvars
    /\ pc = "tick_internals"
    /\ cur = "action"
    /\ LET l == [last EXCEPT !.calls = Append(@, "tick"), !.seen = RxWorker] IN
       IF rx = 0 \/ (Channel(rx).kind = "Empty" /\ spawned < MaxWorkers)
       THEN /\ start_thread
            /\ NodeStore("action", "Running", l)
       ELSE ActionPoll(l)
    /\ UNCHANGED <<alive, wval, cur, after, prev>>

ActionTick_blocking ==
    /\ UNCHANGED tvars
    /\ pc = "tick_internals"
    /\ cur = "action"
    /\ LET l == [last EXCEPT !.calls = Append(@, "tick"), !.seen = RxWorker] IN
       IF rx = 0
       THEN /\ start_thread
            /\ NodeStore("action", "Running", l)
       ELSE /\ Channel(rx).kind # "Empty"
            /\ ActionPoll(l)
    /\ UNCHANGED <<alive, wval, cur, after, prev>>

\* Action::tick: without a receiver start the thread and return Running,
\* with one return what the poll gives.
ActionTick ==
    /\ UNCHANGED tvars
    /\ pc = "tick_internals"
    /\ cur = "action"
    /\ LET l == [last EXCEPT !.calls = Append(@, "tick"), !.seen = RxWorker] IN
       IF rx = 0
       THEN /\ start_thread
            /\ NodeStore("action", "Running", l)
       ELSE ActionPoll(l)
    /\ UNCHANGED <<alive, wval, cur, after, prev>>

ActionReset_detach ==
    /\ UNCHANGED tvars
    /\ pc = "reset_internals"
    /\ cur = "action"
    /\ rx' = 0
    /\ ResetDone(last)
    /\ UNCHANGED <<status, alive, spawned, wstate, wval, cur, after, ticked,
                   lastRet, prev>>

\* Action::reset: with a receiver, rx.recv().unwrap() waits for the worker's
\* value and panics on a disconnected channel; then rx is cleared.
ActionReset ==
    /\ UNCHANGED tvars
    /\ pc = "reset_internals"
    /\ cur = "action"
    /\ IF rx = 0
       THEN /\ ResetDone(last)
            /\ UNCHANGED <<rx, wstate>>
       ELSE /\ Channel(rx).kind # "Empty"
            /\ wstate' = Taken(rx)
            /\ IF Channel(rx).kind = "Ok"
               THEN rx' = 0 /\ ResetDone(last)
               ELSE Panic(last) /\ UNCHANGED rx
    /\ UNCHANGED <<status, alive, spawned, wval, cur, after, ticked, lastRet, prev>>

(***************************************************************************)
(* The worker thread: tx.send((func_clone)(world_clone)).unwrap()          *)
(***************************************************************************)

\* The receiver of worker w's channel still exists.
ReceiverAlive(w) == alive["action"] /\ rx = w

\* The task returns v and the worker blocks in send.
WorkerReturn(w, v) ==
    /\ UNCHANGED tvars
    /\ wstate[w] = "running"
    /\ wstate' = [wstate EXCEPT ![w] = "sending"]
    /\ wval' = [wval EXCEPT ![w] = v]
    /\ UNCHANGED <<status, alive, rx, spawned, pc, cur, after, ticked, lastRet,
                   last, prev>>

\* The task panics: the thread unwinds and drops tx without a send.
WorkerDie(w) ==
    /\ UNCHANGED tvars
    /\ wstate[w] = "running"
    /\ wstate' = [wstate EXCEPT ![w] = "died"]
    /\ UNCHANGED <<status, alive, rx, spawned, wval, pc, cur, after, ticked,
                   lastRet, last, prev>>

\* send returns Err because the receiver is gone, and unwrap() panics.
WorkerSendFail(w) ==
    /\ UNCHANGED tvars
    /\ wstate[w] = "sending"
    /\ ~ReceiverAlive(w)
    /\ wstate' = [wstate EXCEPT ![w] = "failed"]
    /\ UNCHANGED <<status, alive, rx, spawned, wval, pc, cur, after, ticked,
                   lastRet, last, prev>>

\* send returned Ok: the closure ends and tx is dropped.
WorkerExit(w) ==
    /\ UNCHANGED tvars
    /\ wstate[w] = "sent"
    /\ wstate' = [wstate EXCEPT ![w] = "exited"]
    /\ UNCHANGED <<status, alive, rx, spawned, wval, pc, cur, after, ticked,
                   lastRet, last, prev>>

\* The steps of the tick thread inside an operation.
ThreadStep == InlineTick \/ InlineReset \/ ActionTick \/ ActionReset

Next ==
    \/ \E n \in Nodes : NodeTick(n)
    \/ \E n \in Nodes : CallReset(n)
    \/ \E n \in Nodes : NodeDrop(n)
    \/ InlineTick
    \/ InlineReset
    \/ ActionTick
    \/ ActionReset
    \/ \E w \in Workers, v \in Status : WorkerReturn(w, v)
    \/ \E w \in Workers : WorkerDie(w)
    \/ \E w \in Workers : WorkerSendFail(w)
    \/ \E w \in Workers : WorkerExit(w)

Spec == Init /\ [][Next]_vars

(***************************************************************************)
(* The Action's internals called directly (Tickable::tick and              *)
(* Tickable::reset of Action, without the Node wrapper and its reset)      *)
(***************************************************************************)

\* Action::tick called on the internals: Node.status is not involved.
ActionInternalsTick ==
    /\ UNCHANGED tvars
    /\ pc = "idle"
    /\ cur' = "action"
    /\ prev' = Summary(last)
    /\ LET l == [Begin("action", "tick") EXCEPT !.calls = <<"tick">>,
                                                !.seen = RxWorker] IN
       IF rx = 0
       THEN /\ start_thread
            /\ last' = [l EXCEPT !.ret = "Running", !.outcome = "returned"]
            /\ lastRet' = [lastRet EXCEPT !["action"] = "Running"]
            /\ UNCHANGED pc
       ELSE LET p == Poll(Channel(rx)) IN
            /\ wstate' = Taken(rx)
            /\ UNCHANGED spawned
            /\ IF p.panic
               THEN Panic(l) /\ UNCHANGED <<rx, lastRet>>
               ELSE /\ rx' = IF p.reset THEN 0 ELSE rx
                    /\ last' = [l EXCEPT !.ret = p.status, !.outcome = "returned"]
                    /\ lastRet' = [lastRet EXCEPT !["action"] = p.status]
                    /\ UNCHANGED pc
    /\ UNCHANGED <<status, alive, wval, after, ticked>>

\* Action::reset called on the internals, up to the wait for the worker.
ActionInternalsReset ==
    /\ UNCHANGED tvars
    /\ pc = "idle"
    /\ cur' = "action"
    /\ prev' = Summary(last)
    /\ last' = [Begin("action", "reset") EXCEPT !.calls = <<"reset">>]
    /\ pc' = "reset_internals"
    /\ after' = "return"
    /\ UNCHANGED <<status, alive, rx, spawned, wstate, wval, ticked, lastRet>>

InternalsInit == Init

InternalsNext ==
    \/ ActionInternalsTick
    \/ ActionInternalsReset
    \/ ActionReset
    \/ \E w \in Workers, v \in Status : WorkerReturn(w, v)
    \/ \E w \in Workers : WorkerDie(w)
    \/ \E w \in Workers : WorkerExit(w)

InternalsSpec == InternalsInit /\ [][InternalsNext]_vars

(***************************************************************************)
(* Composite nodes over children whose internals return any status         *)
(* (sequence.rs, selector.rs, parallel.rs, decorator/repeat.rs)            *)
(***************************************************************************)

\* Most children a composite is given.
MaxChildren == 2

\* usize::MAX of the model's machine word, wide enough that a threshold of at
\* most one more than the number of children never overflows the usize sum
\* failures + required_successes.
UsizeMax == 2 * MaxChildren + 3

\* Largest attempt limit a Repeat is given.
MaxLimit == 3

\* Most ticks of the root between two of its resets.
MaxTicks == 3

Kinds == {"Sequence", "ActiveSequence", "Selector", "StatefulSelector",
          "Parallel", "Repeat", "UntilFail", "UntilSuccess", "Invert",
          "InvertInvert", "AlwaysSucceed", "AlwaysFail", "AlwaysRunning",
          "Decorator"}

\* The decorators that count attempts against an optional limit.
Limited == {"Repeat", "UntilFail", "UntilSuccess"}

\* A composite's call of Node::tick on its child i, with the child's status
\* before it and the status it returned.
Ticked(i, pre, st) == [e |-> "tick", i |-> i, pre |-> pre, st |-> st]

\* A composite's call of Node::reset on its child i.
WasReset(i) == [e |-> "reset", i |-> i]

\* The state of the root's internals while a tick or a reset runs.
Acc(ch, nc, at, ret, tr) ==
    [children |-> ch, next_child |-> nc, attempts |-> at, ret |-> ret,
     trace |-> tr, successes |-> 0, failures |-> 0, panic |-> FALSE]

\* child.tick(world) on child i, whose internals return v: Node::tick stores
\* and returns v (after a reset of the child if it was done).
TickChild(a, i, v) ==
    [a EXCEPT !.children[i] = v,
              !.ret = v,
              !.trace = Append(@, Ticked(i, a.children[i], v))]

\* child.reset() on child i: Node::reset leaves it Initialized.
ResetChild(a, i) ==
    [a EXCEPT !.children[i] = "Initialized",
              !.trace = Append(@, WasReset(i))]

RECURSIVE ResetChildren(_, _)
\* for child in self.children.iter_mut() { child.reset(); }
ResetChildren(a, i) ==
    IF i > Len(a.children) THEN a ELSE ResetChildren(ResetChild(a, i), i + 1)

\* What the internals of a child may return from a tick.
Returns == Status

\* self.next_child += 1 if the child just ticked is done.
Advance(b) == IF is_done(b.ret) THEN [b EXCEPT !.next_child = @ + 1] ELSE b

RECURSIVE SequenceLoop(_)
\* The while loop of Sequence::tick: the set of its possible outcomes.
SequenceLoop(a) ==
    IF a.next_child < Len(a.children) /\ a.ret = "Succeeded"
    THEN UNION {SequenceLoop(Advance(TickChild(a, a.next_child + 1, v))) : v \in Returns}
    ELSE {a}

SequenceTick_succeed(a) ==
    {[b EXCEPT !.ret = "Succeeded"] : b \in SequenceLoop([a EXCEPT !.ret = "Succeeded"])}

SequenceTick_restart(a) == SequenceLoop([a EXCEPT !.ret = "Succeeded", !.next_child = 0])

\* Sequence::tick
SequenceTick(a) == SequenceLoop([a EXCEPT !.ret = "Succeeded"])

RECURSIVE ActiveSequenceLoop(_, _)
\* The for loop of ActiveSequence::tick, from child i on.
ActiveSequenceLoop(a, i) ==
    IF i > Len(a.children) THEN {a}
    ELSE IF a.ret = "Succeeded"
         THEN UNION {ActiveSequenceLoop(TickChild(a, i, v), i + 1) : v \in Returns}
         ELSE ActiveSequenceLoop(ResetChild(a, i), i + 1)

RECURSIVE ActiveSequenceLoop_noreset(_, _)
ActiveSequenceLoop_noreset(a, i) ==
    IF i > Len(a.children) THEN {a}
    ELSE IF a.ret = "Succeeded"
         THEN UNION {ActiveSequenceLoop_noreset(TickChild(a, i, v), i + 1) : v \in Returns}
         ELSE ActiveSequenceLoop_noreset(a, i + 1)

ActiveSequenceTick_noreset(a) == ActiveSequenceLoop_noreset([a EXCEPT !.ret = "Succeeded"], 1)

\* ActiveSequence::tick
ActiveSequenceTick(a) == ActiveSequenceLoop([a EXCEPT !.ret = "Succeeded"], 1)

RECURSIVE SelectorLoop(_, _)
\* The for loop of Selector::tick, from child i on.
SelectorLoop(a, i) ==
    IF i > Len(a.children) THEN {a}
    ELSE IF a.ret = "Failed"
         THEN UNION {SelectorLoop(TickChild(a, i, v), i + 1) : v \in Returns}
         ELSE SelectorLoop(ResetChild(a, i), i + 1)

RECURSIVE SelectorLoop_all(_, _)
SelectorLoop_all(a, i) ==
    IF i > Len(a.children) THEN {a}
    ELSE IF a.ret # "Succeeded"
         THEN UNION {SelectorLoop_all(TickChild(a, i, v), i + 1) : v \in Returns}
         ELSE SelectorLoop_all(ResetChild(a, i), i + 1)

SelectorTick_all(a) == SelectorLoop_all([a EXCEPT !.ret = "Failed"], 1)

\* Selector::tick
SelectorTick(a) == SelectorLoop([a EXCEPT !.ret = "Failed"], 1)

RECURSIVE StatefulSelectorLoop(_)
\* The while loop of StatefulSelector::tick.
StatefulSelectorLoop(a) ==
    IF a.next_child < Len(a.children) /\ a.ret = "Failed"
    THEN UNION {StatefulSelectorLoop(Advance(TickChild(a, a.next_child + 1, v))) :
                    v \in Returns}
    ELSE {a}

\* StatefulSelector::tick
StatefulSelectorTick(a) == StatefulSelectorLoop([a EXCEPT !.ret = "Failed"])

\* successes += 1 or failures += 1 for the child status in b.ret.
Tally(b) ==
    [b EXCEPT !.successes = IF b.ret = "Succeeded" THEN @ + 1 ELSE @,
              !.failures = IF b.ret = "Failed" THEN @ + 1 ELSE @]

RECURSIVE ParallelLoop(_, _)
\* The for loop of Parallel::tick, from child i on: a done child is read, any
\* other child is ticked.
ParallelLoop(a, i) ==
    IF i > Len(a.children) THEN {a}
    ELSE IF is_done(a.children[i])
         THEN ParallelLoop(Tally([a EXCEPT !.ret = a.children[i]]), i + 1)
         ELSE UNION {ParallelLoop(Tally(TickChild(a, i, v)), i + 1) : v \in Returns}

RECURSIVE ParallelLoop_retick(_, _)
ParallelLoop_retick(a, i) ==
    IF i > Len(a.children) THEN {a}
    ELSE UNION {ParallelLoop_retick(Tally(TickChild(a, i, v)), i + 1) : v \in Returns}

\* The result Parallel::tick computes from its counts. The sum is a usize:
\* past UsizeMax it panics where overflow checks are compiled in and wraps
\* around where they are not.
ParallelResult(a) ==
    LET sum == a.failures + required_successes IN
    IF a.successes >= required_successes THEN [a EXCEPT !.ret = "Succeeded"]
    ELSE IF sum > UsizeMax /\ overflow_checks THEN [a EXCEPT !.panic = TRUE]
    ELSE IF sum % (UsizeMax + 1) > Len(a.children) THEN [a EXCEPT !.ret = "Failed"]
    ELSE [a EXCEPT !.ret = "Running"]

ParallelTick_retick(a) == {ParallelResult(b) : b \in ParallelLoop_retick(a, 1)}

\* Parallel::tick
ParallelTick(a) == {ParallelResult(b) : b \in ParallelLoop(a, 1)}

RepeatResult_late(b) ==
    IF attempt_limit = -1 THEN [b EXCEPT !.ret = "Running"]
    ELSE IF is_done(b.ret)
         THEN [b EXCEPT !.attempts = @ + 1,
                        !.ret = IF b.attempts + 1 <= attempt_limit
                                THEN "Running" ELSE "Succeeded"]
         ELSE [b EXCEPT !.ret = "Running"]

\* The status Repeat::tick returns after its child returned b.ret
\* (attempt_limit -1 stands for None).
RepeatResult(b) ==
    IF attempt_limit = -1 THEN [b EXCEPT !.ret = "Running"]
    ELSE IF is_done(b.ret)
         THEN [b EXCEPT !.attempts = @ + 1,
                        !.ret = IF b.attempts + 1 < attempt_limit
                                THEN "Running" ELSE "Succeeded"]
         ELSE [b EXCEPT !.ret = "Running"]

\* Repeat::tick
RepeatTick(a) == {RepeatResult(TickChild(a, 1, v)) : v \in Returns}

\* The status UntilFail::tick (stop = Failed) or UntilSuccess::tick (stop =
\* Succeeded) returns after its child returned b.ret.
UntilResult(b, stop) ==
    IF b.ret = stop THEN [b EXCEPT !.ret = "Succeeded"]
    ELSE IF attempt_limit = -1 THEN [b EXCEPT !.ret = "Running"]
    ELSE IF is_done(b.ret)
         THEN [b EXCEPT !.attempts = @ + 1,
                        !.ret = IF b.attempts + 1 < attempt_limit
                                THEN "Running" ELSE "Failed"]
         ELSE [b EXCEPT !.ret = "Running"]

UntilFailTick_never(a) ==
    {UntilResult(TickChild(a, 1, v), "Initialized") : v \in Returns}

\* UntilFail::tick
UntilFailTick(a) == {UntilResult(TickChild(a, 1, v), "Failed") : v \in Returns}

\* UntilSuccess::tick
UntilSuccessTick(a) == {UntilResult(TickChild(a, 1, v), "Succeeded") : v \in Returns}

\* Decorator::tick: the child is ticked and the function is run on its
\* status; the function, which also reads the world, may return any status.
DecoratorTick(a) ==
    {[b EXCEPT !.ret = r] : b \in {TickChild(a, 1, v) : v \in Returns}, r \in Status}

\* The statuses the match of Invert::tick has an arm for.
InvertArms == {"Succeeded", "Failed", "Running"}

Swap_stuck(s) == IF s = "Succeeded" THEN "Failed" ELSE "Succeeded"

\* The match of Invert::tick.
Swap(s) ==
    CASE s = "Succeeded" -> "Failed"
      [] s = "Failed" -> "Succeeded"
      [] s = "Running" -> s

\* Invert::tick over a child that returns a status the match covers.
InvertTick(a) ==
    {[b EXCEPT !.ret = Swap(b.ret)] : b \in {TickChild(a, 1, v) : v \in InvertArms}}

\* Invert::reset of the inner Invert (child 1) of Invert(Invert(c)), called by
\* Node::reset on it when it is not Initialized: c (child 2) is reset.
InnerReset(a) ==
    IF a.children[1] # "Initialized"
    THEN ResetChild([a EXCEPT !.children[1] = "Initialized"], 2)
    ELSE a

\* Invert::tick of Invert(Invert(c)): Node::tick on the inner Invert resets it
\* if it is done, ticks c, stores and returns the swapped status, which the
\* outer Invert swaps again.
InvertInvertTick(a) ==
    LET a1 == IF is_done(a.children[1]) THEN InnerReset(a) ELSE a IN
    {[b EXCEPT !.ret = Swap(b.ret)] :
        b \in {TickChild(TickChild(a1, 2, v), 1, Swap(v)) : v \in InvertArms}}

ConstantTick_through(a, fixed) ==
    IF Len(a.children) = 0 THEN {[a EXCEPT !.ret = fixed]}
    ELSE {[b EXCEPT !.ret = IF ~is_done(b.ret) THEN "Running" ELSE b.ret] :
              b \in {TickChild(a, 1, v) : v \in Returns}}

\* AlwaysSucceed::tick (fixed = Succeeded) and AlwaysFail::tick (fixed =
\* Failed), without a child or with one.
ConstantTick(a, fixed) ==
    IF Len(a.children) = 0 THEN {[a EXCEPT !.ret = fixed]}
    ELSE {[b EXCEPT !.ret = IF ~is_done(b.ret) THEN "Running" ELSE fixed] :
              b \in {TickChild(a, 1, v) : v \in Returns}}

\* AlwaysRunning::tick
AlwaysRunningTick(a) == {[a EXCEPT !.ret = "Running"]}

\* Tickable::tick of the root's internals.
InternalsTick(a) ==
    CASE kind = "Sequence" -> SequenceTick(a)
      [] kind = "ActiveSequence" -> ActiveSequenceTick(a)
      [] kind = "Selector" -> SelectorTick(a)
      [] kind = "StatefulSelector" -> StatefulSelectorTick(a)
      [] kind = "Parallel" -> ParallelTick(a)
      [] kind = "Repeat" -> RepeatTick(a)
      [] kind = "UntilFail" -> UntilFailTick(a)
      [] kind = "UntilSuccess" -> UntilSuccessTick(a)
      [] kind = "Invert" -> InvertTick(a)
      [] kind = "Decorator" -> DecoratorTick(a)
      [] kind = "InvertInvert" -> InvertInvertTick(a)
      [] kind = "AlwaysSucceed" -> ConstantTick(a, "Succeeded")
      [] kind = "AlwaysFail" -> ConstantTick(a, "Failed")
      [] kind = "AlwaysRunning" -> AlwaysRunningTick(a)

InternalsReset_keep(a) ==
    CASE kind \in {"Sequence", "StatefulSelector"} ->
             [ResetChildren(a, 1) EXCEPT !.next_child = 0]
      [] kind = "InvertInvert" -> InnerReset([a EXCEPT !.trace = Append(@, WasReset(1))])
      [] kind = "AlwaysRunning" -> a
      [] OTHER -> ResetChildren(a, 1)

\* Tickable::reset of the root's internals.
InternalsReset(a) ==
    CASE kind \in {"Sequence", "StatefulSelector"} ->
             [ResetChildren(a, 1) EXCEPT !.next_child = 0]
      [] kind \in {"ActiveSequence", "Selector", "Parallel"} -> ResetChildren(a, 1)
      [] kind \in Limited -> ResetChild([a EXCEPT !.attempts = 0], 1)
      [] kind \in {"Invert", "Decorator", "AlwaysSucceed", "AlwaysFail"} ->
             ResetChildren(a, 1)
      [] kind = "InvertInvert" -> InnerReset([a EXCEPT !.trace = Append(@, WasReset(1))])
      [] kind = "AlwaysRunning" -> a

Ticks(tr) == {j \in 1..Len(tr) : tr[j].e = "tick"}

\* What a Repeat, UntilFail or UntilSuccess root has done since its internals
\* were last reset: its ticks, the ticks and completions of its child, and
\* the resets of the child (by the child's own Node::tick, which finds it
\* done; the decorator's tick makes no other). For a root of any kind:
\* whether a child has returned Initialized since then.
Count(h, tr) ==
    LET saw == h.sawInitialized
                 \/ \E j \in Ticks(tr) : tr[j].st = "Initialized" IN
    IF kind \notin Limited THEN [NoHist EXCEPT !.sawInitialized = saw] ELSE
    [ticks |-> h.ticks + 1,
     completions |-> h.completions + Cardinality({j \in Ticks(tr) : is_done(tr[j].st)}),
     childTicks |-> h.childTicks + Cardinality(Ticks(tr)),
     resets |-> h.resets + Cardinality({j \in 1..Len(tr) :
                    tr[j].e = "reset" \/ is_done(tr[j].pre)}),
     sawInitialized |-> saw]

\* Node::tick on the root: the internals are reset first if the root is done,
\* then ticked; each child ticked returns any status.
RootTick ==
    /\ UNCHANGED nvars
    /\ kind \in Kinds
    /\ top.outcome # "panicked"
    /\ hist.ticks < MaxTicks \/ is_done(root)
    /\ \E a1 \in {IF is_done(root)
                  THEN InternalsReset(Acc(children, next_child, attempts, "none", <<>>))
                  ELSE Acc(children, next_child, attempts, "none", <<>>)} :
       \E a2 \in InternalsTick([a1 EXCEPT !.trace = <<>>]) :
           /\ children' = a2.children
           /\ next_child' = a2.next_child
           /\ attempts' = a2.attempts
           /\ root' = IF a2.panic
                      THEN (IF is_done(root) THEN "Initialized" ELSE root)
                      ELSE a2.ret
           /\ top' = [op |-> "tick", pre |-> root, next0 |-> a1.next_child,
                      rtrace |-> a1.trace, trace |-> a2.trace,
                      ret |-> IF a2.panic THEN "none" ELSE a2.ret,
                      outcome |-> IF a2.panic THEN "panicked" ELSE "returned"]
           /\ hist' = Count(IF is_done(root) THEN NoHist ELSE hist, a2.trace)
    /\ UNCHANGED <<kind, required_successes, attempt_limit, overflow_checks, rxs, idx>>

\* Node::reset on the root.
RootReset ==
    /\ UNCHANGED nvars
    /\ kind \in Kinds
    /\ top.outcome # "panicked"
    /\ \E a1 \in {IF root # "Initialized"
                  THEN InternalsReset(Acc(children, next_child, attempts, "none", <<>>))
                  ELSE Acc(children, next_child, attempts, "none", <<>>)} :
           /\ children' = a1.children
           /\ next_child' = a1.next_child
           /\ attempts' = a1.attempts
           /\ root' = "Initialized"
           /\ top' = [op |-> "reset", pre |-> root, next0 |-> next_child,
                      rtrace |-> a1.trace, trace |-> <<>>, ret |-> "none",
                      outcome |-> "returned"]
           /\ hist' = IF root # "Initialized" THEN NoHist ELSE hist
    /\ UNCHANGED <<kind, required_successes, attempt_limit, overflow_checks, rxs, idx>>

\* Node::tick called on a root that no BehaviorTree owns.
TreeTick == RootTick /\ UNCHANGED bt

\* Node::reset called on a root that no BehaviorTree owns.
TreeReset == RootReset /\ UNCHANGED bt

\* A root built by Sequence::new, ActiveSequence::new().with_children,
\* Selector::new, StatefulSelector::new, Parallel::new, Repeat::new or
\* Repeat::with_limit (likewise UntilFail and UntilSuccess), Invert::new (over
\* a leaf, or over an Invert over a leaf: children <<inner Invert, leaf>>),
\* Decorator::new,
\* AlwaysSucceed / AlwaysFail ::new or ::with_child, or AlwaysRunning::new,
\* over fresh children, in a build with or without overflow checks.
TreeInit ==
    /\ NodeInit
    /\ kind \in Kinds
    /\ root = "Initialized"
    /\ \E n \in 0..MaxChildren :
         /\ kind \in Limited \cup {"Invert", "Decorator"} => n = 1
         /\ kind = "InvertInvert" => n = 2
         /\ kind \in {"AlwaysSucceed", "AlwaysFail"} => n <= 1
         /\ kind = "AlwaysRunning" => n = 0
         /\ children = [i \in 1..n |-> "Initialized"]
    /\ next_child = 0
    /\ required_successes \in 0..UsizeMax
    /\ kind # "Parallel" => required_successes = 0
    /\ attempt_limit \in -1..MaxLimit
    /\ kind \notin Limited => attempt_limit = -1
    /\ attempts = 0
    /\ overflow_checks \in BOOLEAN
    /\ kind # "Parallel" => overflow_checks = FALSE
    /\ top = NoTop
    /\ hist = NoHist
    /\ bt = NoBt
    /\ rxs = <<>>
    /\ idx = 0

TreeNext == TreeTick \/ TreeReset

TreeSpec == TreeInit /\ [][TreeNext]_vars

(***************************************************************************)
(* A Parallel whose children are Action nodes (parallel.rs, action.rs)     *)
(***************************************************************************)

NoParTop == [op |-> "none", pre |-> "Initialized", kids0 |-> <<>>, rxs0 |-> <<>>,
             spawned0 |-> 0, spawned1 |-> 0, running |-> {}, trace |-> <<>>,
             ret |-> "none", outcome |-> "returned"]

\* The state of the Parallel, its Action children and the workers while the
\* for loop of Parallel::tick runs.
ParAcc ==
    [children |-> children, rxs |-> rxs, wstate |-> wstate, spawned |-> spawned,
     successes |-> 0, failures |-> 0, ret |-> "none", trace |-> <<>>,
     panic |-> FALSE]

\* Node::tick of child i stores and returns st.
ParStore(a, i, st) ==
    [a EXCEPT !.children[i] = st, !.ret = st,
              !.trace = Append(@, Ticked(i, a.children[i], st))]

ParActionTick_inline(a, i) ==
    IF a.rxs[i] = 0
    THEN ParStore([a EXCEPT !.spawned = @ + 1,
                            !.wstate[a.spawned + 1] = "sending",
                            !.rxs[i] = a.spawned + 1], i, "Running")
    ELSE LET p == Poll(Channel(a.rxs[i])) IN
         IF p.panic THEN [a EXCEPT !.panic = TRUE]
         ELSE ParStore([a EXCEPT !.wstate = Taken(a.rxs[i]),
                                 !.rxs[i] = IF p.reset THEN 0 ELSE @], i, p.status)

\* child.tick(world) on the Action child i, which is not done: Action::tick
\* starts a thread if the child has no receiver, and polls the receiver
\* without waiting if it has one.
ParActionTick(a, i) ==
    IF a.rxs[i] = 0
    THEN ParStore([a EXCEPT !.spawned = @ + 1,
                            !.wstate[a.spawned + 1] = "running",
                            !.rxs[i] = a.spawned + 1], i, "Running")
    ELSE LET p == Poll(Channel(a.rxs[i])) IN
         IF p.panic THEN [a EXCEPT !.panic = TRUE]
         ELSE ParStore([a EXCEPT !.wstate[a.rxs[i]] =
                                     IF Channel(a.rxs[i]).kind = "Ok" THEN "sent" ELSE @,
                                 !.rxs[i] = IF p.reset THEN 0 ELSE @], i, p.status)

RECURSIVE ParLoop(_, _)
\* The for loop of Parallel::tick over Action children, from child i on; a
\* panic of a child's tick ends it.
ParLoop(a, i) ==
    IF i > Len(a.children) \/ a.panic THEN a
    ELSE IF is_done(a.children[i])
         THEN ParLoop(Tally([a EXCEPT !.ret = a.children[i]]), i + 1)
         ELSE ParLoop(Tally(ParActionTick(a, i)), i + 1)

\* The threads a tick of the Parallel would start.
ParStarts == {i \in 1..Len(children) : ~is_done(children[i]) /\ rxs[i] = 0}

\* Node::tick on the root, up to the call of Parallel::tick: a root that is
\* done is reset first.
ParTick ==
    /\ pc = "idle"
    /\ top' = [NoParTop EXCEPT !.op = "tick", !.pre = root, !.outcome = "running"]
    /\ after' = "tick"
    /\ IF is_done(root)
       THEN root' = "Initialized" /\ pc' = "reset_children" /\ idx' = 1
       ELSE pc' = "tick_internals" /\ UNCHANGED <<root, idx>>
    /\ UNCHANGED <<kind, children, next_child, required_successes, attempt_limit,
                   attempts, overflow_checks, hist, bt, rxs>>
    /\ UNCHANGED <<status, alive, rx, spawned, wstate, wval, cur, ticked,
                   lastRet, last, prev>>

\* Node::reset on the root, up to the call of Parallel::reset.
ParReset ==
    /\ pc = "idle"
    /\ after' = "return"
    /\ IF root # "Initialized"
       THEN /\ root' = "Initialized" /\ pc' = "reset_children" /\ idx' = 1
            /\ top' = [NoParTop EXCEPT !.op = "reset", !.pre = root,
                                       !.outcome = "running"]
       ELSE /\ UNCHANGED <<root, pc, idx>>
            /\ top' = [NoParTop EXCEPT !.op = "reset", !.pre = root]
    /\ UNCHANGED <<kind, children, next_child, required_successes, attempt_limit,
                   attempts, overflow_checks, hist, bt, rxs>>
    /\ UNCHANGED <<status, alive, rx, spawned, wstate, wval, cur, ticked,
                   lastRet, last, prev>>

\* The tick thread leaves Parallel::reset after its last child: back into
\* Node::tick, or back to the caller of Node::reset.
ParResetNext ==
    IF idx < Len(children)
    THEN idx' = idx + 1 /\ UNCHANGED <<pc, top>>
    ELSE /\ UNCHANGED idx
         /\ IF after = "tick"
            THEN pc' = "tick_internals" /\ UNCHANGED top
            ELSE pc' = "idle" /\ top' = [top EXCEPT !.outcome = "returned"]

\* One pass of the loop of Parallel::reset: child.reset() on the Action child
\* idx. Node::reset does nothing on an Initialized child; otherwise it sets
\* the status and calls Action::reset, which with a receiver waits in
\* rx.recv().unwrap() for the worker's value and panics on a disconnected
\* channel.
ParResetChild ==
    /\ pc = "reset_children"
    /\ IF children[idx] = "Initialized"
       THEN ParResetNext /\ UNCHANGED <<children, rxs, wstate>>
       ELSE /\ children' = [children EXCEPT ![idx] = "Initialized"]
            /\ IF rxs[idx] = 0
               THEN ParResetNext /\ UNCHANGED <<rxs, wstate>>
               ELSE /\ Channel(rxs[idx]).kind # "Empty"
                    /\ wstate' = Taken(rxs[idx])
                    /\ IF Channel(rxs[idx]).kind = "Ok"
                       THEN /\ rxs' = [rxs EXCEPT ![idx] = 0]
                            /\ ParResetNext
                       ELSE /\ pc' = "panicked"
                            /\ top' = [top EXCEPT !.outcome = "panicked"]
                            /\ UNCHANGED <<rxs, idx>>
    /\ UNCHANGED <<kind, root, next_child, required_successes, attempt_limit,
                   attempts, overflow_checks, hist, bt>>
    /\ UNCHANGED <<status, alive, rx, spawned, wval, cur, after, ticked,
                   lastRet, last, prev>>

\* Parallel::tick over the Action children and the end of Node::tick: no
\* step of it waits for a worker.
ParBody ==
    /\ pc = "tick_internals"
    /\ spawned + Cardinality(ParStarts) <= MaxWorkers
    /\ \E b \in {ParallelResult(ParLoop(ParAcc, 1))} :
         /\ children' = b.children
         /\ rxs' = b.rxs
         /\ wstate' = b.wstate
         /\ spawned' = b.spawned
         /\ IF b.panic
            THEN /\ pc' = "panicked"
                 /\ top' = [top EXCEPT !.outcome = "panicked", !.trace = b.trace]
                 /\ UNCHANGED root
            ELSE /\ pc' = "idle"
                 /\ root' = b.ret
                 /\ top' = [top EXCEPT !.kids0 = children, !.rxs0 = rxs,
                                       !.spawned0 = spawned, !.spawned1 = b.spawned,
                                       !.running = {w \in Workers : b.wstate[w] = "running"},
                                       !.trace = b.trace, !.ret = b.ret,
                                       !.outcome = "returned"]
    /\ UNCHANGED <<kind, next_child, required_successes, attempt_limit, attempts,
                   overflow_checks, hist, bt, idx>>
    /\ UNCHANGED <<status, alive, rx, wval, cur, after, ticked, lastRet, last, prev>>

\* Parallel::new(k, children) over 1 .. MaxWorkers fresh Action nodes.
ParInit ==
    /\ NodeInit
    /\ kind = "Parallel"
    /\ root = "Initialized"
    /\ \E m \in 1..MaxWorkers :
         /\ children = [i \in 1..m |-> "Initialized"]
         /\ rxs = [i \in 1..m |-> 0]
         /\ required_successes \in 0..m + 1
    /\ next_child = 0
    /\ attempt_limit = -1
    /\ attempts = 0
    /\ overflow_checks = FALSE
    /\ top = NoParTop
    /\ hist = NoHist
    /\ bt = NoBt
    /\ idx = 0

ParNext ==
    \/ ParTick
    \/ ParReset
    \/ ParResetChild
    \/ ParBody
    \/ \E w \in Workers, v \in Status : WorkerReturn(w, v)
    \/ \E w \in Workers : WorkerDie(w)
    \/ \E w \in Workers : WorkerExit(w)

ParallelSpec == ParInit /\ [][ParNext]_vars

(***************************************************************************)
(* A Sequence whose children are Action nodes (sequence.rs, action.rs).    *)
(* The root's Node wrapper is ParTick / ParReset, which do not depend on   *)
(* the kind of the root.                                                   *)
(***************************************************************************)

\* The state of the Sequence, its Action children and the workers while the
\* while loop of Sequence::tick runs.
SeqAcc ==
    [children |-> children, rxs |-> rxs, wstate |-> wstate, spawned |-> spawned,
     next_child |-> next_child, ret |-> "Succeeded", trace |-> <<>>,
     panic |-> FALSE]

RECURSIVE SeqLoop_eager(_)
SeqLoop_eager(a) ==
    IF a.next_child < Len(a.children) /\ ~a.panic
    THEN LET b == ParActionTick(a, a.next_child + 1) IN
         SeqLoop_eager(IF b.panic THEN b ELSE [b EXCEPT !.next_child = @ + 1])
    ELSE a

RECURSIVE SeqLoop(_)
\* The while loop of Sequence::tick over Action children; a panic of a
\* child's tick ends it.
SeqLoop(a) ==
    IF a.next_child < Len(a.children) /\ a.ret = "Succeeded" /\ ~a.panic
    THEN LET b == ParActionTick(a, a.next_child + 1) IN
         SeqLoop(IF b.panic THEN b ELSE Advance(b))
    ELSE a

\* Sequence::tick over the Action children and the end of Node::tick: no
\* step of it waits for a worker. The children from next_child on have not
\* completed since the last reset, so their Node::tick resets nothing.
SeqBody ==
    /\ pc = "tick_internals"
    /\ \A i \in next_child + 1..Len(children) : ~is_done(children[i])
    /\ \E b \in {SeqLoop(SeqAcc)} :
         /\ b.spawned <= MaxWorkers
         /\ children' = b.children
         /\ rxs' = b.rxs
         /\ wstate' = b.wstate
         /\ spawned' = b.spawned
         /\ next_child' = b.next_child
         /\ IF b.panic
            THEN /\ pc' = "panicked"
                 /\ top' = [top EXCEPT !.outcome = "panicked", !.trace = b.trace]
                 /\ UNCHANGED root
            ELSE /\ pc' = "idle"
                 /\ root' = b.ret
                 /\ top' = [top EXCEPT !.kids0 = children, !.rxs0 = rxs,
                                       !.spawned0 = spawned, !.spawned1 = b.spawned,
                                       !.running = {w \in Workers : b.wstate[w] = "running"},
                                       !.trace = b.trace, !.ret = b.ret,
                                       !.outcome = "returned"]
    /\ UNCHANGED <<kind, required_successes, attempt_limit, attempts,
                   overflow_checks, hist, bt, idx>>
    /\ UNCHANGED <<status, alive, rx, wval, cur, after, ticked, lastRet, last, prev>>

\* The tick thread leaves Sequence::reset after its last child, with
\* next_child cleared: back into Node::tick, or back to the caller of
\* Node::reset.
SeqResetNext ==
    IF idx < Len(children)
    THEN idx' = idx + 1 /\ UNCHANGED <<pc, top, next_child>>
    ELSE /\ UNCHANGED idx
         /\ next_child' = 0
         /\ IF after = "tick"
            THEN pc' = "tick_internals" /\ UNCHANGED top
            ELSE pc' = "idle" /\ top' = [top EXCEPT !.outcome = "returned"]

\* One pass of the loop of Sequence::reset: child.reset() on the Action child
\* idx (see ParResetChild).
SeqResetChild ==
    /\ pc = "reset_children"
    /\ IF children[idx] = "Initialized"
       THEN SeqResetNext /\ UNCHANGED <<children, rxs, wstate>>
       ELSE /\ children' = [children EXCEPT ![idx] = "Initialized"]
            /\ IF rxs[idx] = 0
               THEN SeqResetNext /\ UNCHANGED <<rxs, wstate>>
               ELSE /\ Channel(rxs[idx]).kind # "Empty"
                    /\ wstate' = Taken(rxs[idx])
                    /\ IF Channel(rxs[idx]).kind = "Ok"
                       THEN /\ rxs' = [rxs EXCEPT ![idx] = 0]
                            /\ SeqResetNext
                       ELSE /\ pc' = "panicked"
                            /\ top' = [top EXCEPT !.outcome = "panicked"]
                            /\ UNCHANGED <<rxs, idx, next_child>>
    /\ UNCHANGED <<kind, root, required_successes, attempt_limit,
                   attempts, overflow_checks, hist, bt>>
    /\ UNCHANGED <<status, alive, rx, spawned, wval, cur, after, ticked,
                   lastRet, last, prev>>

\* Sequence::new(children) over 1 .. MaxWorkers fresh Action nodes.
SeqInit ==
    /\ NodeInit
    /\ kind = "Sequence"
    /\ root = "Initialized"
    /\ \E m \in 1..MaxWorkers :
         /\ children = [i \in 1..m |-> "Initialized"]
         /\ rxs = [i \in 1..m |-> 0]
    /\ required_successes = 0
    /\ next_child = 0
    /\ attempt_limit = -1
    /\ attempts = 0
    /\ overflow_checks = FALSE
    /\ top = NoParTop
    /\ hist = NoHist
    /\ bt = NoBt
    /\ idx = 0

SeqNext ==
    \/ ParTick
    \/ ParReset
    \/ SeqResetChild
    \/ SeqBody
    \/ \E w \in Workers, v \in Status : WorkerReturn(w, v)
    \/ \E w \in Workers : WorkerDie(w)
    \/ \E w \in Workers : WorkerExit(w)

SequenceSpec == SeqInit /\ [][SeqNext]_vars

(***************************************************************************)
(* Progress: an Action node, or a Sequence of Action nodes, whose tasks    *)
(* all return Succeeded or Failed, under a caller that keeps ticking and a *)
(* scheduler that lets every thread run.                                   *)
(***************************************************************************)

\* The task of worker w returns Succeeded or Failed.
TaskReturns(w) == \E v \in {"Succeeded", "Failed"} : WorkerReturn(w, v)

\* The caller resets the Action node; a reset is called only while a tick
\* after it can still start a worker.
LiveReset == spawned < MaxWorkers /\ CallReset("action")

\* The steps of the lone Action node and of its caller.
LiveAction ==
    /\ kind = "none"
    /\ \/ NodeTick("action")
       \/ LiveReset
       \/ ActionTick
       \/ ActionReset

\* The steps of the Sequence and of its caller.
LiveSequence ==
    /\ kind = "Sequence"
    /\ \/ ParTick
       \/ SeqBody
       \/ SeqResetChild

\* One Action node, or a Sequence of Action nodes.
LiveInit == Init \/ SeqInit

LiveNext ==
    \/ LiveAction
    \/ LiveSequence
    \/ \E w \in Workers : TaskReturns(w)
    \/ \E w \in Workers : WorkerExit(w)

\* Every task returns, every thread that can take a step eventually takes
\* it, and the caller keeps ticking.
LiveFairness ==
    /\ \A w \in Workers : WF_vars(TaskReturns(w))
    /\ \A w \in Workers : WF_vars(WorkerExit(w))
    /\ WF_vars(kind = "none" /\ NodeTick("action"))
    /\ WF_vars(kind = "none" /\ (ActionTick \/ ActionReset))
    /\ WF_vars(kind = "Sequence" /\ ParTick)
    /\ WF_vars(kind = "Sequence" /\ (SeqBody \/ SeqResetChild))

LiveSpec == LiveInit /\ [][LiveNext]_vars /\ LiveFairness

(***************************************************************************)
(* BehaviorTree (bt.rs) over a root of any kind.  run with a frequency     *)
(* other than zero is stepped one loop iteration at a time; while it runs  *)
(* it holds the tree (&mut self), so no other call is made.                *)
(***************************************************************************)

BtTickCall_node == RootTick

\* The body of BehaviorTree::tick: a done root is reset, any other is ticked.
BtTickCall ==
    \/ is_done(root) /\ RootReset
    \/ ~is_done(root) /\ RootTick

BtTickRet_stale == IF top'.op = "reset" THEN root ELSE top'.ret

\* The status BehaviorTree::tick returns ("none" if the root's tick panicked).
BtTickRet == IF top'.op = "reset" THEN "Initialized" ELSE top'.ret

\* BehaviorTree::tick
BtTick ==
    /\ ~bt.running
    /\ BtTickCall
    /\ bt' = [op |-> "tick", freq |-> "none", running |-> FALSE, pre0 |-> root,
              pre |-> root, ticked |-> top'.op = "tick", status |-> "none",
              ret |-> BtTickRet, run |-> NoRun]

\* BehaviorTree::reset
BtReset ==
    /\ ~bt.running
    /\ RootReset
    /\ bt' = [op |-> "reset", freq |-> "none", running |-> FALSE, pre0 |-> root,
              pre |-> root, ticked |-> FALSE, status |-> "none", ret |-> "none",
              run |-> NoRun]

Hooked_running(hook, st) == hook /\ st = "Running"

\* The hook is called after a tick that returned st: whenever one was supplied.
Hooked(hook, st) == hook

\* The end of an iteration of the loop of BehaviorTree::run, after a tick that
\* returned st: whether the thread sleeps and whether a warning is logged,
\* for a finite or infinite frequency and an elapsed time that is (over) or
\* is not at least the cycle duration.
Pace(st, finite, over) ==
    LET inside == ~is_done(st) /\ finite /\ ~over IN
    [slept |-> inside /\ ~over, warned |-> inside /\ over]

\* What a call of run has done after one more tick, which returned st (none
\* if it panicked: the panic leaves run at once).
RunAfter(r, st, finite, over) ==
    LET p == IF st = "none" THEN [slept |-> FALSE, warned |-> FALSE]
             ELSE Pace(st, finite, over) IN
    [hook |-> r.hook, finite |-> finite, ticks |-> r.ticks + 1,
     hooks |-> r.hooks + IF st # "none" /\ Hooked(r.hook, st) THEN 1 ELSE 0,
     over |-> over, slept |-> p.slept, warned |-> p.warned]

\* BehaviorTree::run with freq == 0.0: one tick, then the hook if there is
\* one; the tick's status is returned.
BtRunZero ==
    /\ ~bt.running
    /\ BtTickCall
    /\ \E hook \in BOOLEAN :
         bt' = [op |-> "run", freq |-> "zero", running |-> FALSE, pre0 |-> root,
                pre |-> root, ticked |-> top'.op = "tick", status |-> BtTickRet,
                ret |-> BtTickRet,
                run |-> [RunAfter([NoRun EXCEPT !.hook = hook], BtTickRet, TRUE, FALSE)
                             EXCEPT !.slept = FALSE, !.warned = FALSE]]

\* One iteration of the loop of BehaviorTree::run, entered with the tree's
\* root in status pre0: the tick's status is stored in status, the hook is
\* called, the thread may sleep, and the status is returned when it is not
\* Running.
BtRunIteration(pre0, r) ==
    /\ BtTickCall
    /\ \E over \in BOOLEAN :
         bt' = [op |-> "run", freq |-> "nonzero", running |-> BtTickRet = "Running",
                pre0 |-> pre0, pre |-> root, ticked |-> top'.op = "tick",
                status |-> BtTickRet,
                ret |-> IF BtTickRet = "Running" THEN "none" ELSE BtTickRet,
                run |-> RunAfter(r, BtTickRet, r.finite, over)]

\* BehaviorTree::run with a frequency other than zero (finite or not), with or
\* without a hook, up to the end of the first iteration of its loop (status
\* starts as Running, so there is one).
BtRunStart ==
    /\ ~bt.running
    /\ \E hook \in BOOLEAN, finite \in BOOLEAN :
         BtRunIteration(root, [NoRun EXCEPT !.hook = hook, !.finite = finite])

\* A further iteration of the loop of BehaviorTree::run: status is Running.
BtRunStep ==
    /\ bt.running
    /\ bt.status = "Running"
    /\ bt.run.ticks < MaxTicks
    /\ BtRunIteration(bt.pre0, bt.run)

\* BehaviorTree::new over a fresh root.
BtInit == TreeInit

BtNext == BtTick \/ BtReset \/ BtRunZero \/ BtRunStart \/ BtRunStep

BtSpec == BtInit /\ [][BtNext]_vars

(***************************************************************************)
(* Properties                                                              *)
(***************************************************************************)

\* The most recent operation is a completed call of op on node n.
Returned(n, o) == last.node = n /\ last.op = o /\ last.outcome = "returned"

\* C1 (auto-reset): a Node::tick entered in a done status calls the
\* internals' reset exactly once before it calls the internals' tick, and
\* when it returns it has called reset once and then tick once, and the
\* status it stored is the one that tick computed.
C1_AutoReset ==
    (last.op = "tick" /\ is_done(last.pre)) =>
        /\ pc = "reset_internals" => last.calls = <<"reset">>
        /\ pc = "tick_internals" => last.calls = <<"reset">>
        /\ last.outcome = "returned" =>
              /\ last.calls = <<"reset", "tick">>
              /\ last.ret \in Status
              /\ status[last.node] = last.ret

C1_Witness ==
    /\ last.op = "tick"
    /\ is_done(last.pre)
    /\ last.outcome = "returned"
    /\ last.calls = <<"reset", "tick">>

C3_Reset ==
    last.op = "reset" =>
        /\ status[last.node] = "Initialized"
        /\ Len(last.calls) <= 1
        /\ last.pre = "Initialized" =>
              /\ last.calls = <<>>
              /\ last.outcome = "returned"
              /\ last.node = "action" => rx = last.rxPre /\ spawned = last.spawnedPre
        /\ (prev.op = "reset" /\ prev.node = last.node) =>
              prev.ncalls + Len(last.calls) <= 1

C3_Witness ==
    /\ last.op = "reset"
    /\ last.outcome = "returned"
    /\ last.calls = <<>>
    /\ prev.op = "reset"
    /\ prev.node = last.node
    /\ prev.ncalls = 1

\* The workers that have not handed over a result yet: the task is
\* executing, or it returned and the worker waits in send.
Outstanding == {w \in Workers : wstate[w] \in {"running", "sending"}}

\* C4 (one worker per Action): at no time are two workers of the Action
\* outstanding, whatever the interleaving of ticks, resets and worker steps.
C4_OneWorker == Cardinality(Outstanding) <= 1

C4_Witness ==
    \E w1, w2 \in Workers :
        /\ w1 # w2
        /\ wstate[w1] \in {"sent", "exited"}
        /\ wstate[w2] = "running"

\* C5 (no leak on reset): a reset of the Action node called while its
\* worker's task was executing returns only after that worker handed over
\* its result; when it has returned no worker is outstanding and the Action
\* holds no receiver.
C5_NoLeak ==
    (Returned("action", "reset") /\ last.inflight) =>
        /\ wstate[last.rxPre] \in {"sent", "exited"}
        /\ Outstanding = {}
        /\ rx = 0

C5_Witness ==
    /\ Returned("action", "reset")
    /\ last.inflight
    /\ rx = 0

\* C6 as claimed: a reset of the Action made after its worker's Succeeded
\* or Failed result was received (the node's status is done) ends without a
\* fatal error.
C6_ResetAnyStatus ==
    ~ /\ last.node = "action"
      /\ is_done(last.pre)
      /\ last.calls = <<"reset">>
      /\ last.outcome = "panicked"

\* C7 (Action ticks): a tick of an Action without a receiver spawns exactly
\* one worker, stores its receiver and returns Running; a tick that finds
\* the worker's task executing returns Running and spawns nothing; a tick
\* that receives the worker's Succeeded or Failed returns that result.
C7_ActionTick ==
    Returned("action", "tick") =>
        /\ last.seen = "none" =>
              /\ last.ret = "Running"
              /\ spawned = last.spawnedPre + 1
              /\ rx = spawned
              /\ wstate[rx] # "unborn"
        /\ last.seen = "running" =>
              /\ last.ret = "Running"
              /\ spawned = last.spawnedPre
              /\ rx = last.rxPre
        /\ (last.seen = "sending" /\ is_done(wval[last.rxPre])) =>
              /\ last.ret = wval[last.rxPre]
              /\ spawned = last.spawnedPre

C7_Witness ==
    /\ Returned("action", "tick")
    /\ last.seen = "sending"
    /\ last.ret = "Failed"
    /\ wval[last.rxPre] = "Failed"

\* C8 (sole blocking point): whenever the tick thread is inside an operation
\* and cannot take its next step, it is inside Action::reset; in Action::tick
\* (and in the InlineAction) its next step is always possible.
C8_SoleBlockingPoint ==
    (pc \in {"tick_internals", "reset_internals"} /\ ~ENABLED ThreadStep) =>
        (pc = "reset_internals" /\ cur = "action")

C8_Witness ==
    /\ pc = "reset_internals"
    /\ cur = "action"
    /\ RxWorker = "running"
    /\ ~ENABLED ThreadStep

\* C9 as claimed: once the Action node is dropped none of its workers is
\* still executing its task (the drop waited for it).
C9_NoWorkerOutlivesNode ==
    ~alive["action"] => \A w \in Workers : wstate[w] # "running"

\* C10 (worker disconnect is fatal): a tick of the Action that finds its
\* worker dead without a result sent panics; it returns no status and
\* stores none.
C10_DisconnectFatal ==
    (last.node = "action" /\ last.op = "tick" /\ last.seen = "died") =>
        /\ last.outcome = "panicked"
        /\ last.ret = "none"
        /\ pc = "panicked"
        /\ status["action"] = last.pre

C10_Witness ==
    /\ last.node = "action"
    /\ last.op = "tick"
    /\ last.seen = "died"
    /\ last.outcome = "panicked"

\* C11 as claimed: a tick of the Action that follows a tick in which the
\* worker's Running or Initialized was received calls the task again: it
\* spawns a new worker and returns Running.
C11_NonTerminalRerun ==
    ( /\ last.node = "action" /\ last.op = "tick" /\ last.outcome # "running"
      /\ prev.node = "action" /\ prev.op = "tick"
      /\ prev.recv \in {"Running", "Initialized"} ) =>
        /\ last.outcome = "returned"
        /\ last.ret = "Running"
        /\ spawned = last.spawnedPre + 1

\* The calls of Node::tick among the calls tr a composite made on its children.
TickEvents(tr) == SelectSeq(tr, LAMBDA e : e.e = "tick")

\* The children ticked were first, first + 1, ... in this order, each but the
\* last returned go, and the scan stopped short of the last child only on a
\* status other than go.
Scan(T, first, go) ==
    /\ \A j \in 1..Len(T) : T[j].i = first + j - 1
    /\ \A j \in 1..Len(T) - 1 : T[j].st = go
    /\ Len(T) = 0 => first > Len(children)
    /\ Len(T) > 0 /\ T[Len(T)].st = go => T[Len(T)].i = Len(children)

\* The status of the last child ticked, go if none was.
Result(T, go) == IF Len(T) = 0 THEN go ELSE T[Len(T)].st

C15_SelectorResult ==
    (kind \in {"Selector", "StatefulSelector"} /\ top.op = "tick") =>
        LET T == TickEvents(top.trace) IN
        /\ top.outcome = "returned"
        /\ Scan(T, top.next0 + 1, "Failed")
        /\ \A i \in 1..top.next0 : children[i] = "Failed"
        /\ kind = "Selector" => top.next0 = 0
        /\ top.ret = Result(T, "Failed")
        /\ root = top.ret

\* A Selector of two children whose first child succeeded: the tick returned
\* Succeeded and the second child was not ticked.
C15_Witness ==
    /\ kind = "Selector" /\ top.op = "tick" /\ Len(children) = 2
    /\ TickEvents(top.trace) = <<Ticked(1, "Initialized", "Succeeded")>>
    /\ top.ret = "Succeeded"

\* C13: a tick of a Sequence or a StatefulSelector ticks no child that is
\* done (a child that completed since the last reset of the composite is not
\* ticked again), starts at the child it had reached, which is the child that
\* returned Running if the composite was Running, and goes on to the right
\* one child at a time; the children behind the position reached are done and
\* those beyond the child at it have not been ticked.
C13_StatefulResume ==
    (kind \in {"Sequence", "StatefulSelector"} /\ top.op = "tick") =>
        /\ \A j \in 1..Len(top.trace) :
             /\ top.trace[j].e = "tick"
             /\ ~is_done(top.trace[j].pre)
             /\ top.trace[j].i = top.next0 + j
        /\ ~is_done(top.pre) => top.rtrace = <<>>
        /\ top.pre = "Running" =>
             /\ Len(top.trace) > 0
             /\ top.trace[1].pre = "Running"
        /\ next_child >= top.next0
        /\ \A i \in 1..Len(children) :
             /\ i <= next_child => is_done(children[i])
             /\ i > next_child + 1 => children[i] = "Initialized"

\* A Running Sequence whose first child had completed was ticked: the tick
\* started at its second child, which had returned Running.
C13_Witness ==
    /\ kind = "Sequence" /\ top.op = "tick" /\ top.pre = "Running"
    /\ top.next0 = 1 /\ children[1] = "Succeeded"
    /\ top.trace[1].i = 2 /\ top.trace[1].pre = "Running"

\* C14: a tick of an ActiveSequence (a Selector) calls every child once, in
\* declaration order from the first: it ticks a child, whatever the child
\* returned on earlier ticks, if every child before it returned Succeeded
\* (Failed) in this tick, and resets every child after the first one that
\* returned another status, leaving it Initialized.
C14_ActiveReevaluation ==
    (kind \in {"ActiveSequence", "Selector"} /\ top.op = "tick") =>
        LET go == IF kind = "ActiveSequence" THEN "Succeeded" ELSE "Failed" IN
        /\ Len(top.trace) = Len(children)
        /\ \A j \in 1..Len(top.trace) :
             /\ top.trace[j].i = j
             /\ top.trace[j].e = "tick" <=>
                    \A h \in 1..j - 1 : /\ top.trace[h].e = "tick"
                                        /\ top.trace[h].st = go
             /\ top.trace[j].e = "reset" => children[j] = "Initialized"

\* A Running ActiveSequence whose first child had succeeded was ticked: the
\* first child was ticked again and failed, the second child was reset, and
\* the result went from Running to Failed.
C14_Witness ==
    /\ kind = "ActiveSequence" /\ top.op = "tick" /\ top.pre = "Running"
    /\ top.trace = <<Ticked(1, "Succeeded", "Failed"), WasReset(2)>>
    /\ top.ret = "Failed" /\ children[2] = "Initialized"

\* The children of the root that are in status st.
InStatus(st) == {i \in 1..Len(children) : children[i] = st}

\* C16 as claimed: whatever the number of children n, the threshold k and the
\* children's statuses, a tick of a Parallel returns Succeeded iff at least k
\* children have Succeeded, Failed iff fewer have and failures + k > n, and
\* Running otherwise.
C16_Threshold ==
    (kind = "Parallel" /\ top.op = "tick") =>
        LET s == Cardinality(InStatus("Succeeded"))
            f == Cardinality(InStatus("Failed"))
        IN  /\ top.outcome = "returned"
            /\ top.ret = IF s >= required_successes THEN "Succeeded"
                         ELSE IF f + required_successes > Len(children) THEN "Failed"
                         ELSE "Running"

\* C17: a tick of a Parallel ticks every child that is not done once and
\* ticks no child that is done: each child is ticked at most once, a child
\* ticked was not done, and a child not ticked is done.
C17_PendingOnce ==
    (kind = "Parallel" /\ top.op = "tick") =>
        \A i \in 1..Len(children) :
            LET J == {j \in 1..Len(top.trace) : top.trace[j].i = i} IN
            /\ Cardinality(J) <= 1
            /\ J = {} => is_done(children[i])
            /\ \A j \in J : /\ top.trace[j].e = "tick"
                            /\ ~is_done(top.trace[j].pre)

\* A Running Parallel whose first child had completed was ticked: only its
\* second child, which was Running, was ticked.
C17_Witness ==
    /\ kind = "Parallel" /\ top.op = "tick" /\ top.pre = "Running"
    /\ Len(children) = 2 /\ is_done(children[1])
    /\ Len(top.trace) = 1 /\ top.trace[1].i = 2 /\ top.trace[1].pre = "Running"

\* C18 as claimed: the first tick of a Parallel (the tick of an Initialized
\* one) returns Succeeded if its threshold is 0 and Failed if its threshold
\* exceeds the number of its children, whatever the children return.
C18_EdgeCases ==
    (kind = "Parallel" /\ top.op = "tick" /\ top.pre = "Initialized") =>
        /\ required_successes = 0 =>
               top.outcome = "returned" /\ top.ret = "Succeeded"
        /\ required_successes > Len(children) =>
               top.outcome = "returned" /\ top.ret = "Failed"

\* C20: a tick of a Repeat with a limit L >= 1 ticks its child once, never
\* returns Failed, and returns Succeeded exactly when the child completed in
\* this tick for the L-th time since the Repeat was created or reset (Running
\* otherwise); so over a child that completes on every tick it returns
\* Running on ticks 1 .. L - 1 and Succeeded on tick L, the child having been
\* ticked L times.
C20_RepeatCount ==
    (kind = "Repeat" /\ attempt_limit >= 1 /\ top.op = "tick") =>
        /\ top.outcome = "returned"
        /\ Len(top.trace) = 1 /\ top.trace[1].e = "tick"
        /\ hist.childTicks = hist.ticks
        /\ attempts = hist.completions
        /\ hist.completions <= attempt_limit
        /\ top.ret \in {"Running", "Succeeded"}
        /\ top.ret = "Succeeded" <=>
               is_done(top.trace[1].st) /\ hist.completions = attempt_limit
        /\ hist.completions = hist.ticks =>
               top.ret = (IF hist.ticks = attempt_limit THEN "Succeeded" ELSE "Running")

\* A Repeat with limit 3 whose child completed on each of three ticks: the
\* third tick returned Succeeded.
C20_Witness ==
    /\ kind = "Repeat" /\ attempt_limit = 3 /\ top.op = "tick"
    /\ hist.ticks = 3 /\ hist.completions = 3 /\ hist.childTicks = 3
    /\ top.ret = "Succeeded" /\ root = "Succeeded"

\* C19: a tick of a Parallel whose Action children are all fresh (Initialized,
\* without a receiver) starts one worker per child and returns with every
\* one of these workers still running its task; each child returned Running.
C19_ConcurrentActions ==
    ( /\ top.op = "tick" /\ top.outcome = "returned"
      /\ \A i \in 1..Len(children) :
             top.kids0[i] = "Initialized" /\ top.rxs0[i] = 0 ) =>
        /\ top.spawned1 = top.spawned0 + Len(children)
        /\ \A i \in 1..Len(children) : top.spawned0 + i \in top.running
        /\ top.trace = [i \in 1..Len(children) |-> Ticked(i, "Initialized", "Running")]

\* After the first tick of a Parallel over two fresh Actions returned, both
\* workers are running their tasks at the same time.
C19_Witness ==
    /\ Len(children) = 2 /\ top.op = "tick" /\ top.outcome = "returned"
    /\ top.pre = "Initialized" /\ top.spawned0 = 0 /\ pc = "idle"
    /\ wstate[1] = "running" /\ wstate[2] = "running"
    /\ rxs = <<1, 2>>

\* C21: when a Repeat with a limit L returns Succeeded, its child has been
\* reset exactly L times since the Repeat started (one reset for each
\* completion of the child).
C21_ResetPerCompletion ==
    (kind = "Repeat" /\ attempt_limit >= 0 /\ top.op = "tick"
        /\ top.outcome = "returned" /\ top.ret = "Succeeded")
        => hist.resets = attempt_limit

\* C22: the first tick of a Repeat with limit 0 returns Succeeded without
\* ticking the child, and the first tick of an UntilFail with limit 0 returns
\* Failed, whatever its child would return.
C22_LimitZero ==
    (attempt_limit = 0 /\ top.op = "tick" /\ top.pre = "Initialized")
        => /\ kind = "Repeat" => (top.ret = "Succeeded" /\ Ticks(top.trace) = {})
           /\ kind = "UntilFail" => top.ret = "Failed"

\* The child of the root returned st in the last tick.
ChildReturned(st) == \E j \in Ticks(top.trace) : top.trace[j].st = st

C24_LimitCountsResets ==
    (kind = "UntilSuccess" /\ attempt_limit >= 0 /\ top.op = "tick"
        /\ top.ret = "Failed")
        => (hist.completions = attempt_limit + 1 /\ hist.resets = attempt_limit)

\* The internals of a root just built over one fresh child.
FreshAcc == Acc(<<"Initialized">>, 0, 0, "none", <<>>)

\* C25: a reset of a Repeat, UntilFail or UntilSuccess, in whatever state,
\* leaves the attempt counter at 0 and the child reset, and the tick after
\* the reset does what the first tick of a newly built node does: the node
\* is in the state of a fresh one, so its later statuses are those of a
\* fresh node.
C25_ResetRestarts ==
    [][/\ (kind \in Limited /\ top'.op = "reset")
            => /\ attempts' = 0
               /\ children' = <<"Initialized">>
               /\ root' = "Initialized"
       /\ (kind \in Limited /\ top.op = "reset" /\ top'.op = "tick")
            => \E a \in InternalsTick(FreshAcc) :
                   /\ top'.ret = a.ret /\ top'.trace = a.trace
                   /\ attempts' = a.attempts /\ children' = a.children]_vars

C25_Witness ==
    /\ kind \in Limited /\ top.op = "reset" /\ top.pre = "Running"
    /\ \E j \in 1..Len(top.rtrace) : top.rtrace[j].e = "reset"
    /\ hist = NoHist /\ attempts = 0

\* C26: a tick of Invert returns Failed when its child returned Succeeded,
\* Succeeded when it returned Failed and Running when it returned Running;
\* a tick of Invert(Invert(c)) ticks c once and returns the status c returned.
C26_Invert ==
    /\ (kind = "Invert" /\ top.op = "tick") =>
          /\ ChildReturned("Succeeded") => top.ret = "Failed"
          /\ ChildReturned("Failed") => top.ret = "Succeeded"
          /\ ChildReturned("Running") => top.ret = "Running"
          /\ Cardinality(Ticks(top.trace)) = 1
    /\ (kind = "InvertInvert" /\ top.op = "tick") =>
          /\ \E j \in Ticks(top.trace) :
                top.trace[j].i = 2 /\ top.trace[j].st = top.ret
          /\ Cardinality({j \in Ticks(top.trace) : top.trace[j].i = 2}) = 1
          /\ children[2] = top.ret /\ root = top.ret

C26_Witness ==
    /\ kind = "InvertInvert" /\ top.op = "tick" /\ is_done(top.pre)
    /\ top.ret = "Failed" /\ children = <<"Succeeded", "Failed">>

\* C27: AlwaysSucceed and AlwaysFail without a child return their fixed status
\* on every tick; with a child they tick it on every tick and return Running
\* while the child is not done and the fixed status, whatever the child's
\* result, when it is. AlwaysRunning returns Running on every tick.
C27_Constants ==
    /\ (kind \in {"AlwaysSucceed", "AlwaysFail"} /\ top.op = "tick") =>
          LET fixed == IF kind = "AlwaysSucceed" THEN "Succeeded" ELSE "Failed" IN
          /\ Len(children) = 0 => (top.ret = fixed /\ top.trace = <<>>)
          /\ Len(children) = 1 =>
                /\ Cardinality(Ticks(top.trace)) = 1
                /\ top.ret = IF is_done(children[1]) THEN fixed ELSE "Running"
    /\ (kind = "AlwaysRunning" /\ top.op = "tick") =>
          (top.ret = "Running" /\ top.trace = <<>>)

C27_Witness ==
    /\ kind = "AlwaysFail" /\ top.op = "tick"
    /\ children = <<"Succeeded">> /\ top.ret = "Failed"

\* C28 as stated: a BehaviorTree::tick on a tree whose root is done resets the
\* root and ticks it in the same call, and returns the status of that tick.
C28_NodeProtocol ==
    (bt.op = "tick" /\ is_done(bt.pre) /\ top.outcome = "returned")
        => (bt.ticked /\ top.op = "tick" /\ bt.ret = top.ret)

\* C28, amended: a BehaviorTree::tick never resets and ticks in one call. On
\* a root that is done it only resets the root and returns Initialized; on
\* any other root it is the root's tick, without a reset, and returns its
\* status. A driver observes Initialized after every completion, and
\* otherwise only if a child, or the function of a Decorator, returned
\* Initialized in that tick.
C28_TickProtocol ==
    (bt.op = "tick" /\ top.outcome = "returned") =>
        /\ is_done(bt.pre) =>
              /\ ~bt.ticked /\ top.op = "reset" /\ top.trace = <<>>
              /\ bt.ret = "Initialized" /\ root = "Initialized"
        /\ ~is_done(bt.pre) =>
              /\ bt.ticked /\ top.op = "tick" /\ top.rtrace = <<>>
              /\ bt.ret = top.ret /\ root = top.ret
        /\ bt.ret = "Initialized" =>
              (is_done(bt.pre) \/ ChildReturned("Initialized") \/ kind = "Decorator")

C28_Witness ==
    /\ bt.op = "tick" /\ bt.pre = "Succeeded" /\ bt.ret = "Initialized"
    /\ ~bt.ticked /\ root = "Initialized"

\* C29: a BehaviorTree::tick on a tree whose root is done resets the root,
\* ticks no node and returns Initialized; the tick that follows it ticks the
\* root and returns the root's status.
C29_InitializedOnce ==
    [][/\ (bt'.op = "tick" /\ is_done(root)) =>
              /\ bt'.ret = "Initialized" /\ root' = "Initialized"
              /\ top'.op = "reset" /\ top'.trace = <<>>
              /\ \A j \in 1..Len(top'.rtrace) : top'.rtrace[j].e = "reset"
              /\ \A i \in 1..Len(children') : children'[i] = "Initialized"
       /\ (bt.op = "tick" /\ is_done(bt.pre) /\ bt'.op = "tick"
              /\ top'.outcome = "returned") =>
              /\ bt'.ticked /\ top'.op = "tick" /\ top'.pre = "Initialized"
              /\ bt'.ret = top'.ret /\ root' = top'.ret]_vars

C29_Witness ==
    /\ bt.op = "tick" /\ bt.pre = "Failed" /\ bt.ret = "Initialized"
    /\ top.op = "reset" /\ top.rtrace # <<>>
    /\ \A i \in 1..Len(children) : children[i] = "Initialized"

\* C30: a BehaviorTree::run with a frequency other than zero returns only
\* Succeeded or Failed, in whatever state the tree was when it was called
\* (stated for runs in whose last tick no child returned Initialized).
C30_RunCompletes ==
    (bt.op = "run" /\ bt.freq = "nonzero" /\ ~bt.running /\ bt.ret # "none"
        /\ ~ChildReturned("Initialized"))
        => bt.ret \in {"Succeeded", "Failed"}

\* C31: a run with frequency 0 makes exactly one tick, calls the hook, if one
\* was supplied, exactly once after it, and returns the tick's status; a run
\* with another frequency has called the hook once after each tick, so after
\* every iteration the hook calls are as many as the ticks.
C31_RunHook ==
    (bt.op = "run" /\ top.outcome = "returned") =>
        /\ bt.run.hooks = IF bt.run.hook THEN bt.run.ticks ELSE 0
        /\ bt.freq = "zero" =>
              /\ bt.run.ticks = 1 /\ ~bt.running
              /\ bt.ret = IF is_done(bt.pre) THEN "Initialized" ELSE top.ret
        /\ bt.freq = "nonzero" =>
              /\ bt.run.ticks >= 1
              /\ bt.running <=> bt.status = "Running"

C31_Witness ==
    /\ bt.op = "run" /\ bt.freq = "nonzero" /\ ~bt.running /\ bt.run.hook
    /\ bt.run.ticks = MaxTicks /\ bt.run.hooks = MaxTicks
    /\ bt.ret = "Succeeded"

\* C32: in a run with a finite frequency other than zero, after a tick that
\* leaves the tree not done, a warning is logged and the thread does not
\* sleep if the tick took the cycle period or longer, and the thread sleeps
\* and no warning is logged if it took less.
C32_Overrun ==
    (bt.op = "run" /\ bt.freq = "nonzero" /\ bt.run.finite
        /\ top.outcome = "returned" /\ ~is_done(bt.status)) =>
        /\ bt.run.over => (bt.run.warned /\ ~bt.run.slept)
        /\ ~bt.run.over => (bt.run.slept /\ ~bt.run.warned)

\* C33: the tick of a node's internals is entered only while the node's status
\* is Initialized or Running: never when the internals' last tick returned
\* Succeeded or Failed and their reset has not been called since.
C33_TickedWhileNotDone ==
    pc = "tick_internals" =>
        /\ status[cur] \in {"Initialized", "Running"}
        /\ ~(ticked[cur] /\ is_done(lastRet[cur]))
        /\ is_done(last.pre) => last.calls = <<"reset">>

C33_Witness ==
    /\ pc = "tick_internals" /\ cur = "inline" /\ last.op = "tick"
    /\ last.pre = "Failed" /\ last.calls = <<"reset">>
    /\ status["inline"] = "Initialized" /\ lastRet["inline"] = "Failed"

\* C34: once a tick of the Action's internals has returned the Succeeded or
\* Failed it received from the worker, the next tick of the internals, with
\* no reset in between, returns that same status, starts no worker and does
\* not panic.
C34_StickyTerminal ==
    (last.node = "action" /\ last.op = "tick" /\ last.outcome # "running"
        /\ prev.node = "action" /\ prev.op = "tick"
        /\ prev.outcome = "returned" /\ is_done(prev.recv))
        => /\ last.outcome = "returned"
           /\ last.ret = prev.recv
           /\ spawned = last.spawnedPre

\* C35: in a tick of a Parallel that reaches the failure test (fewer than k
\* children have succeeded), the usize sum failures + k does not exceed the
\* largest usize, so it neither wraps nor aborts the tick; in particular a
\* Parallel with k > n and at least one failed child returns Failed.
C35_OverflowFree ==
    (kind = "Parallel" /\ top.op = "tick"
        /\ Cardinality(InStatus("Succeeded")) < required_successes) =>
        LET f == Cardinality(InStatus("Failed")) IN
        /\ f + required_successes <= UsizeMax
        /\ top.outcome = "returned"
        /\ (required_successes > Len(children) /\ f >= 1) => top.ret = "Failed"

\* C36: a tick of a Decorator whose child is already done does not run the
\* child again: the child's tick returns the status the child completed
\* with.
C36_NoRerun ==
    (kind = "Decorator" /\ top.op = "tick") =>
        \A j \in Ticks(top.trace) :
            is_done(top.trace[j].pre) => top.trace[j].st = top.trace[j].pre

\* C37: after a reset of the root, the root and every node under it are
\* Initialized, and the root's resume index and attempt counter are 0.
C37_WholeTreeReset ==
    (kind \in Kinds /\ top.op = "reset") =>
        /\ root = "Initialized"
        /\ \A i \in 1..Len(children) : children[i] = "Initialized"
        /\ next_child = 0
        /\ attempts = 0

\* C38: for a Sequence or StatefulSelector with n children that have returned
\* only Running, Succeeded or Failed, 0 <= next_child <= n in every state,
\* and when its tick returns Running every child before next_child is
\* Succeeded (Failed for the selector), the child at next_child is Running
\* and every child after it is Initialized.
C38_Bookkeeping ==
    (kind \in {"Sequence", "StatefulSelector"} /\ ~hist.sawInitialized) =>
        LET pass == IF kind = "Sequence" THEN "Succeeded" ELSE "Failed" IN
        /\ 0 <= next_child /\ next_child <= Len(children)
        /\ (top.op = "tick" /\ top.ret = "Running") =>
              /\ next_child < Len(children)
              /\ \A i \in 1..Len(children) :
                    children[i] = IF i <= next_child THEN pass
                                  ELSE IF i = next_child + 1 THEN "Running"
                                  ELSE "Initialized"

C38_Witness ==
    /\ kind = "StatefulSelector" /\ ~hist.sawInitialized
    /\ top.op = "tick" /\ top.ret = "Running"
    /\ next_child = 1 /\ children = <<"Failed", "Running">>

\* The workers that have not yet handed over a result: the task is running,
\* or the worker waits in send.
Pending == {w \in Workers : wstate[w] \in {"running", "sending"}}

\* C39: in a Sequence whose children are all Actions at most one worker is
\* outstanding at any time, and a child after the first has a worker only if
\* the child before it has received Succeeded from its own worker; no child
\* from next_child on is done, so the Sequence never restarts a child.
C39_WorkerOrder ==
    kind = "Sequence" =>
        /\ Cardinality(Pending) <= 1
        /\ \A i \in 2..Len(children) :
              rxs[i] # 0 =>
                  /\ rxs[i - 1] # 0
                  /\ wstate[rxs[i - 1]] \in {"sent", "exited"}
                  /\ wval[rxs[i - 1]] = "Succeeded"
                  /\ pc \in {"idle", "tick_internals"} => children[i - 1] = "Succeeded"
                  /\ rxs[i] > rxs[i - 1]
        /\ pc = "tick_internals" =>
              \A i \in next_child + 1..Len(children) : ~is_done(children[i])

C39_Witness ==
    /\ kind = "Sequence" /\ Len(children) = 2 /\ next_child = 1
    /\ children = <<"Succeeded", "Running">>
    /\ rxs[2] # 0 /\ wstate[rxs[2]] = "running" /\ wstate[rxs[1]] = "exited"

\* C40: when every task returns Succeeded or Failed and the node keeps
\* being ticked, the tick of an Action node eventually returns a done
\* status, a Sequence of Action nodes eventually is done, and a reset of an
\* Action node entered while its worker is in flight eventually returns.
C40_Progress ==
    /\ (kind = "none") => <>(is_done(lastRet["action"]))
    /\ (kind = "Sequence") => <>(is_done(root))
    /\ (kind = "none" /\ pc = "reset_internals" /\ last.op = "reset"
           /\ last.inflight)
          ~> (pc = "idle" /\ last.op = "reset" /\ last.outcome = "returned")

C40_Witness ==
    /\ kind = "none" /\ pc = "idle" /\ last.op = "reset" /\ last.inflight
    /\ last.outcome = "returned" /\ rx = 0 /\ spawned = 1

====
